---- MODULE Spec2Model ----
(***************************************************************************)
(* A model of slicer.py (Apple Slicer): one run of the script, from the    *)
(* check of sys.argv to the exit of the process.                           *)
(*                                                                         *)
(* Numbers.  A Python float or Decimal x is the integer x * Unit, so the   *)
(* model keeps one binary fractional digit; the input texts below are      *)
(* chosen so that every quotient and product the script computes on them   *)
(* is exact in that representation.  format_currency is the only place     *)
(* that changes the unit (to cents).                                       *)
(***************************************************************************)
EXTENDS Integers, Sequences, FiniteSets, TLC

\* The most lines the report files of the working directory hold together.
MaxLines == 2

\* Resolution of the numbers: x is represented by x * Unit.
Unit == 2

(***************************************************************************)
(* Configuration (slicer.py, lines 39 and 46).                             *)
(***************************************************************************)
local_currency == "EUR"

\* A file name is the sequence of its parts: "86337629_0915_WW.txt" is
\* <<"86337629_0915", "_WW.", "txt">>.
currency_data_filename == <<"currency_data", ".", "txt">>

WWReport == <<"86337629_0915", "_WW.", "txt">>
EUReport == <<"86337629_0915", "_EU.", "txt">>
Readme   == <<"README", ".", "md">>

ReportNames == {WWReport, EUReport}

\* str.endswith and the `in` operator on a file name.
EndsWith(filename, suffix) == filename[Len(filename)] = suffix
Contains(filename, part) == \E i \in 1..Len(filename) : filename[i] = part

(***************************************************************************)
(* Texts and their conversions.                                            *)
(***************************************************************************)
\* int(text): the texts int() accepts; any other text raises ValueError.
IntOf == ("1" :> 1) @@ ("2" :> 2) @@ ("3" :> 3)

\* Decimal(text): the texts Decimal() accepts, as multiples of 1/Unit.
DecimalOf == ("2" :> 2 * Unit) @@ ("3" :> 3 * Unit) @@ ("5" :> 5 * Unit)
             @@ ("1.00000" :> Unit)

\* text.replace(',', '')
RemoveCommas(text) == IF text = "1,000" THEN "1000" ELSE text

\* float(text): the texts float() accepts, as multiples of 1/Unit.
FloatOf == ("0" :> 0) @@ ("2" :> 2 * Unit) @@ ("3" :> 3 * Unit)
           @@ ("-1" :> (0 - 1) * Unit) @@ ("1000" :> 1000 * Unit)

Abs(x) == IF x < 0 THEN 0 - x ELSE x

\* x / y and x * y on numbers held as multiples of 1/Unit.
Divide(x, y) == IF (x < 0) = (y < 0) THEN (Abs(x) * Unit) \div Abs(y)
                ELSE 0 - ((Abs(x) * Unit) \div Abs(y))
Multiply(x, y) == IF (x < 0) = (y < 0) THEN (Abs(x) * Abs(y)) \div Unit
                  ELSE 0 - ((Abs(x) * Abs(y)) \div Unit)

\* format_date: "%m/%d/%Y" parsed and printed as the de_DE locale's "%x".
format_date == ("09/01/2015" :> "01.09.2015") @@ ("09/30/2015" :> "30.09.2015")
               @@ ("10/01/2015" :> "01.10.2015") @@ ("10/31/2015" :> "31.10.2015")

\* format_currency: the number with the locale's two fractional digits,
\* held as a number of cents.
format_currency(number) == (number * 100) \div Unit

\* '/' in text
HasSlash(text) == text \in DOMAIN format_date

(***************************************************************************)
(* The external module apple: the corporation accountable for a country.   *)
(***************************************************************************)
corporation_of == ("FR" :> "Apple Distribution International")
                  @@ ("DE" :> "Apple Distribution International")
                  @@ ("JP" :> "iTunes K.K.")

(***************************************************************************)
(* The lines the files of the working directory may hold.  A line is the   *)
(* list csv.reader yields, kept as the number of its columns and the       *)
(* columns the script reads.                                               *)
(***************************************************************************)
Sale(countrycode, product, quantity, amount, currency, start, end) ==
    [ncols |-> 22, c0 |-> start, c1 |-> end, c5 |-> quantity, c7 |-> amount,
     c8 |-> currency, c12 |-> product, c17 |-> countrycode]

ReportHeader == Sale("Country Of Sale", "Title", "Quantity", "Extended Partner Share",
                     "Partner Share Currency", "Start Date", "End Date")

ReportLines ==
    {ReportHeader,
     Sale("FR", "App", "1", "5", "EUR", "09/01/2015", "09/30/2015"),
     Sale("FR", "Book", "2", "3", "EUR", "09/01/2015", "09/30/2015"),
     Sale("FR", "App", "3", "2", "USD", "09/01/2015", "09/30/2015"),
     Sale("DE", "App", "1", "5", "EUR", "10/01/2015", "10/31/2015"),
     Sale("JP", "App", "2", "5", "JPY", "09/01/2015", "09/30/2015"),
     Sale("JP", "App", "n/a", "5", "JPY", "09/01/2015", "09/30/2015"),
     Sale("JP", "Book", "1", "n/a", "JPY", "09/01/2015", "09/30/2015")}

Rate(ncols, currency, gross, withheld, exchange_rate) ==
    [ncols |-> ncols, c0 |-> currency, c3 |-> gross, c4 |-> withheld,
     c8 |-> exchange_rate]

RateLines ==
    {Rate(10, "JPY", "2", "-1", "2"),
     Rate(11, "EUR", "1,000", "0", "2"),
     Rate(11, "JPY", "2", "-1", "2"),
     Rate(11, "USD - RoW", "2", "3", "3"),
     Rate(11, "JPY", "0", "0", "2"),
     Rate(11, "JPY", "n/a", "0", "2")}

NoLine == [ncols |-> 0]

\* The ways MaxLines or fewer lines lie in the report files of a directory.
RECURSIVE SeqsUpTo(_, _)
SeqsUpTo(S, n) ==
    IF n = 0 THEN {<<>>}
    ELSE LET shorter == SeqsUpTo(S, n - 1)
         IN  shorter \cup {Append(s, x) : s \in {t \in shorter : Len(t) = n - 1}, x \in S}

RECURSIVE TotalLines(_)
TotalLines(fs) ==
    IF DOMAIN fs = {} THEN 0
    ELSE LET n == CHOOSE n \in DOMAIN fs : TRUE
         IN  Len(fs[n]) + TotalLines([m \in DOMAIN fs \ {n} |-> fs[m]])

Directories ==
    UNION {{fs \in [names -> SeqsUpTo(ReportLines, MaxLines)] : TotalLines(fs) <= MaxLines}
           : names \in SUBSET ReportNames}

(***************************************************************************)
(* State.                                                                  *)
(***************************************************************************)
VARIABLES
    argv,             \* sys.argv
    files,            \* the report files of the working directory and their lines
    has_rates,        \* whether currency_data.txt can be opened
    pc,               \* where the run is
    raised,           \* the exception that ended the run
    stdout,           \* what has been printed
    opened,           \* the files opened so far
    currency_data,    \* the result of parse_currency_data
    line,             \* the loop variable of the two parsers
    countries,        \* parse_financial_reports: country -> product -> (quantity, amount)
    currencies,       \* parse_financial_reports: country -> currency
    date_range,       \* parse_financial_reports: the date range label
    listing,          \* the entries of os.listdir not yet visited
    filename,         \* the report file being read
    lineno,           \* the number of lines read from it
    corporations,     \* print_sales_by_corporation: corporation -> country -> products
    corporations_left,\* the corporations not yet visited
    corporation,      \* the corporation being printed
    corporation_sum,  \* its running sum
    countries_left,   \* its countries not yet visited
    countrycode,      \* the country being printed
    products_left     \* its products not yet visited

env == <<argv, files, has_rates>>
rates == <<currency_data, line>>
reports == <<countries, currencies, date_range, listing, filename, lineno>>
printer == <<corporations, corporations_left, corporation, corporation_sum,
             countries_left, countrycode, products_left>>
vars == <<argv, files, has_rates, pc, raised, stdout, opened, currency_data, line,
          countries, currencies, date_range, listing, filename, lineno,
          corporations, corporations_left, corporation, corporation_sum,
          countries_left, countrycode, products_left>>

None == "None"
Empty == [x \in {} |-> 0]
NoException == [exc |-> "none", arg |-> 0, at |-> 0]
SystemExit(code, at) == [exc |-> "SystemExit", arg |-> code, at |-> at]
Exception(exc, at) == [exc |-> exc, arg |-> 0, at |-> at]

\* The exit status of the process: sys.exit's argument, 1 for a traceback.
ExitCode == IF raised.exc = "SystemExit" THEN raised.arg ELSE 1

Init ==
    /\ argv \in {<<"slicer.py">>, <<"slicer.py", "reports">>}
    /\ IF Len(argv) < 2
         THEN files = Empty /\ has_rates = FALSE
         ELSE files \in Directories /\ has_rates \in BOOLEAN
    /\ pc = "main"
    /\ raised = NoException
    /\ stdout = <<>>
    /\ opened = {}
    /\ currency_data = Empty
    /\ line = NoLine
    /\ countries = Empty
    /\ currencies = Empty
    /\ date_range = None
    /\ listing = {}
    /\ filename = <<>>
    /\ lineno = 0
    /\ corporations = Empty
    /\ corporations_left = {}
    /\ corporation = None
    /\ corporation_sum = 0
    /\ countries_left = {}
    /\ countrycode = None
    /\ products_left = {}

\* An exception nobody catches, or sys.exit, ends the run.
Exit(exception) ==
    /\ pc' = "exit"
    /\ raised' = exception

(***************************************************************************)
(* __main__, lines 170-175: the directory argument is missing.             *)
(***************************************************************************)
Usage ==
    /\ pc = "main"
    /\ Len(argv) < 2
    /\ stdout' = Append(stdout, [kind |-> "usage"])
    /\ Exit(SystemExit(1, 175))
    /\ UNCHANGED <<env, opened, rates, reports, printer>>

(***************************************************************************)
(* parse_currency_data, lines 61-69: the file cannot be opened.            *)
(***************************************************************************)
\* The same without the sys.exit(1) of line 69.
CurrencyDataMissingIgnored ==
    /\ pc = "main"
    /\ Len(argv) >= 2
    /\ ~has_rates
    /\ stdout' = Append(stdout, [kind |-> "missing"])
    /\ pc' = "currency_data"
    /\ UNCHANGED <<env, raised, opened, rates, reports, printer>>

CurrencyDataMissing ==
    /\ pc = "main"
    /\ Len(argv) >= 2
    /\ ~has_rates
    /\ stdout' = Append(stdout, [kind |-> "missing"])
    /\ Exit(SystemExit(1, 69))
    /\ UNCHANGED <<env, opened, rates, reports, printer>>

OpenCurrencyData ==
    /\ pc = "main"
    /\ Len(argv) >= 2
    /\ has_rates
    /\ opened' = opened \cup {currency_data_filename}
    /\ pc' = "currency_data"
    /\ UNCHANGED <<env, raised, stdout, rates, reports, printer>>

(***************************************************************************)
(* parse_currency_data, lines 71-78: one line of the file.                 *)
(***************************************************************************)
\* line 76
withholding_tax_factor(gross, withheld) == Unit - Abs(Divide(withheld, gross))

ReadCurrencyLine ==
    /\ pc = "currency_data"
    /\ \E l \in RateLines :
         /\ line' = l
         /\ LET gross == RemoveCommas(l.c3)
                withheld == RemoveCommas(l.c4)
            IN  IF ~(l.ncols > 10)
                  THEN UNCHANGED <<currency_data, pc, raised>>
                ELSE IF withheld \notin DOMAIN FloatOf \/ gross \notin DOMAIN FloatOf
                  THEN Exit(Exception("ValueError", 76)) /\ UNCHANGED currency_data
                ELSE IF FloatOf[gross] = 0
                  THEN Exit(Exception("ZeroDivisionError", 76)) /\ UNCHANGED currency_data
                ELSE /\ currency_data' =
                          [c \in DOMAIN currency_data \cup {l.c0} |->
                              IF c = l.c0
                                THEN <<l.c8, withholding_tax_factor(FloatOf[gross],
                                                                    FloatOf[withheld])>>
                                ELSE currency_data[c]]
                     /\ UNCHANGED <<pc, raised>>
    /\ UNCHANGED <<env, stdout, opened, reports, printer>>

\* lines 80-82 and 87-91: the file ends; parse_financial_reports lists the directory.
ListDirectory ==
    /\ pc = "currency_data"
    /\ line' = NoLine
    /\ listing' = DOMAIN files \cup {currency_data_filename, Readme}
    /\ pc' = "listdir"
    /\ UNCHANGED <<env, raised, stdout, opened, currency_data, countries, currencies,
                   date_range, filename, lineno, printer>>

(***************************************************************************)
(* parse_financial_reports, lines 91-96: the next entry of the directory.  *)
(***************************************************************************)
\* line 93
IsReport(name) == ~(~EndsWith(name, "txt") \/ name = currency_data_filename)

NextFile ==
    /\ pc = "listdir"
    /\ \E name \in listing :
         /\ listing' = listing \ {name}
         /\ IF IsReport(name)
              THEN /\ opened' = opened \cup {name}
                   /\ filename' = name
                   /\ lineno' = 0
                   /\ pc' = "report"
              ELSE UNCHANGED <<opened, filename, lineno, pc>>
    /\ UNCHANGED <<env, raised, stdout, rates, countries, currencies, date_range, printer>>

(***************************************************************************)
(* parse_financial_reports, lines 97-126: one line of a report file.       *)
(***************************************************************************)
\* The same with the line's quantity and amount stored instead of added.
AccumulateOverwrites(products, product, quantity, amount) ==
    [p \in DOMAIN products \cup {product} |->
        IF p = product THEN <<quantity, amount>> ELSE products[p]]

\* lines 114-116: the products of a country with the line's quantity and amount added.
Accumulate(products, product, quantity, amount) ==
    LET quantity_and_amount == IF product \in DOMAIN products THEN products[product]
                               ELSE <<0, 0>>
    IN  [p \in DOMAIN products \cup {product} |->
            IF p = product
              THEN <<quantity_and_amount[1] + quantity, quantity_and_amount[2] + amount>>
              ELSE products[p]]

\* The same without the special case of lines 125-126.
RememberRawCurrency(map, country, currency, name) ==
    [c \in DOMAIN map \cup {country} |-> IF c = country THEN currency ELSE map[c]]

\* The same without the assignment of line 120.
RememberOnlyRestOfWorld(map, country, currency, name) ==
    IF Contains(name, "_WW.")
      THEN [c \in DOMAIN map \cup {country} |->
               IF c = country THEN "USD - RoW" ELSE map[c]]
      ELSE map

\* lines 120-126: the currency remembered for the line's country.
RememberCurrency(map, country, currency, name) ==
    [c \in DOMAIN map \cup {country} |->
        IF c = country
          THEN IF Contains(name, "_WW.") THEN "USD - RoW" ELSE currency
          ELSE map[c]]

\* lines 103-104
DateRange(label, l) == IF label = None
                         THEN <<format_date[l.c0], " - ", format_date[l.c1]>>
                         ELSE label

\* lines 114-117: the ledger with the line added.
AddSale(sales, country, product, quantity, amount) ==
    [c \in DOMAIN sales \cup {country} |->
        IF c = country
          THEN Accumulate(IF c \in DOMAIN sales THEN sales[c] ELSE Empty,
                          product, quantity, amount)
          ELSE sales[c]]

\* lines 103-126: what a line that parses leaves in the function's three results.
ParseLine(st, l, name) ==
    [countries |-> AddSale(st.countries, l.c17, l.c12, IntOf[l.c5], DecimalOf[l.c7]),
     currencies |-> RememberCurrency(st.currencies, l.c17, l.c8, name),
     date_range |-> DateRange(st.date_range, l)]

ReadReportLine ==
    /\ pc = "report"
    /\ lineno < Len(files[filename])
    /\ lineno' = lineno + 1
    /\ LET l == files[filename][lineno + 1]
           st == [countries |-> countries, currencies |-> currencies,
                  date_range |-> date_range]
       IN  /\ line' = l
           /\ IF ~HasSlash(l.c0)
                THEN UNCHANGED <<countries, currencies, date_range, pc, raised>>
              ELSE IF l.c5 \notin DOMAIN IntOf
                THEN /\ date_range' = DateRange(date_range, l)
                     /\ Exit(Exception("ValueError", 107))
                     /\ UNCHANGED <<countries, currencies>>
              ELSE IF l.c7 \notin DOMAIN DecimalOf
                THEN /\ date_range' = DateRange(date_range, l)
                     /\ Exit(Exception("InvalidOperation", 108))
                     /\ UNCHANGED <<countries, currencies>>
              ELSE /\ countries' = ParseLine(st, l, filename).countries
                   /\ currencies' = ParseLine(st, l, filename).currencies
                   /\ date_range' = ParseLine(st, l, filename).date_range
                   /\ UNCHANGED <<pc, raised>>
    /\ UNCHANGED <<env, stdout, opened, currency_data, listing, filename, printer>>

\* line 128
CloseReport ==
    /\ pc = "report"
    /\ lineno = Len(files[filename])
    /\ line' = NoLine
    /\ pc' = "listdir"
    /\ UNCHANGED <<env, raised, stdout, opened, currency_data, reports, printer>>

(***************************************************************************)
(* Lines 130 and 181-183: the reports are parsed, the date line printed.   *)
(***************************************************************************)
PrintSalesDate ==
    /\ pc = "listdir"
    /\ listing = {}
    /\ filename' = <<>>
    /\ lineno' = 0
    /\ IF date_range = None
         THEN Exit(Exception("TypeError", 183)) /\ UNCHANGED stdout
         ELSE /\ stdout' = Append(stdout, [kind |-> "date", date_range |-> date_range])
              /\ pc' = "print_sales"
              /\ UNCHANGED raised
    /\ UNCHANGED <<env, opened, rates, countries, currencies, date_range, listing, printer>>

(***************************************************************************)
(* print_sales_by_corporation, lines 135-138: the countries by corporation.*)
(***************************************************************************)
ByCorporation(sales) ==
    [corp \in {corporation_of[c] : c \in DOMAIN sales} |->
        [c \in {k \in DOMAIN sales : corporation_of[k] = corp} |-> sales[c]]]

GroupByCorporation ==
    /\ pc = "print_sales"
    /\ corporations' = ByCorporation(countries)
    /\ corporations_left' = DOMAIN corporations'
    /\ pc' = "corporations"
    /\ UNCHANGED <<env, raised, stdout, opened, rates, reports, corporation,
                   corporation_sum, countries_left, countrycode, products_left>>

\* The same without the corporation_sum = Decimal(0) of line 141.
BeginCorporationKeepsSum ==
    /\ pc = "corporations"
    /\ \E corp \in corporations_left :
         /\ corporation' = corp
         /\ corporations_left' = corporations_left \ {corp}
         /\ countries_left' = DOMAIN corporations[corp]
         /\ stdout' = Append(stdout, [kind |-> "corporation", corporation |-> corp])
    /\ pc' = "countries"
    /\ UNCHANGED <<env, raised, opened, rates, reports, corporations, countrycode,
                   products_left, corporation_sum>>

\* lines 140-142
BeginCorporation ==
    /\ pc = "corporations"
    /\ \E corp \in corporations_left :
         /\ corporation' = corp
         /\ corporations_left' = corporations_left \ {corp}
         /\ countries_left' = DOMAIN corporations[corp]
         /\ stdout' = Append(stdout, [kind |-> "corporation", corporation |-> corp])
    /\ corporation_sum' = 0
    /\ pc' = "countries"
    /\ UNCHANGED <<env, raised, opened, rates, reports, corporations, countrycode,
                   products_left>>

\* lines 144-149
BeginCountry ==
    /\ pc = "countries"
    /\ \E c \in countries_left :
         IF c \notin DOMAIN currencies
           THEN /\ Exit(Exception("KeyError", 145))
                /\ UNCHANGED <<stdout, countries_left, countrycode, products_left>>
           ELSE /\ countrycode' = c
                /\ countries_left' = countries_left \ {c}
                /\ products_left' = DOMAIN corporations[corporation][c]
                /\ stdout' = Append(stdout, [kind |-> "country", countrycode |-> c])
                /\ pc' = IF products_left' = {} THEN "countries" ELSE "products"
                /\ UNCHANGED raised
    /\ UNCHANGED <<env, opened, rates, reports, corporations, corporations_left,
                   corporation, corporation_sum>>

(***************************************************************************)
(* print_sales_by_corporation, lines 151-163: one product of a country.    *)
(***************************************************************************)
\* The same with the table consulted for every currency.
AlwaysForeign(country_currency) == TRUE

\* line 156
IsForeign(country_currency) == ~(country_currency = local_currency)

\* The same with dict.get and the identity rate as the default.
LookupWithDefault(table, country_currency) ==
    IF country_currency \in DOMAIN table
      THEN [found |-> TRUE, exchange_rate |-> table[country_currency][1],
            withholding_tax_factor |-> table[country_currency][2]]
      ELSE [found |-> TRUE, exchange_rate |-> "1.00000", withholding_tax_factor |-> Unit]

\* line 157: currency_data[country_currency], or the KeyError.
Lookup(table, country_currency) ==
    IF country_currency \in DOMAIN table
      THEN [found |-> TRUE, exchange_rate |-> table[country_currency][1],
            withholding_tax_factor |-> table[country_currency][2]]
      ELSE [found |-> FALSE, exchange_rate |-> "", withholding_tax_factor |-> 0]

\* lines 152 and 157
ExchangeRate(table, country_currency) ==
    IF IsForeign(country_currency) THEN Lookup(table, country_currency).exchange_rate
    ELSE "1.00000"

\* lines 154 and 158
AmountInLocalCurrency(table, country_currency, amount) ==
    IF IsForeign(country_currency)
      THEN LET entry == Lookup(table, country_currency)
           IN  Multiply(Multiply(amount, DecimalOf[entry.exchange_rate]),
                        entry.withholding_tax_factor)
      ELSE amount

PrintProduct ==
    /\ pc = "products"
    /\ \E product \in products_left :
         LET country_currency == currencies[countrycode]
             quantity == corporations[corporation][countrycode][product][1]
             amount == corporations[corporation][countrycode][product][2]
             entry == Lookup(currency_data, country_currency)
         IN  IF IsForeign(country_currency) /\ ~entry.found
               THEN /\ Exit(Exception("KeyError", 157))
                    /\ UNCHANGED <<stdout, corporation_sum, products_left>>
             ELSE IF IsForeign(country_currency)
                     /\ entry.exchange_rate \notin DOMAIN DecimalOf
               THEN /\ Exit(Exception("InvalidOperation", 158))
                    /\ UNCHANGED <<stdout, corporation_sum, products_left>>
             ELSE LET amount_in_local_currency ==
                          AmountInLocalCurrency(currency_data, country_currency, amount)
                  IN  /\ stdout' = Append(stdout,
                            [kind |-> "product", quantity |-> quantity,
                             product |-> product, country_currency |-> country_currency,
                             amount |-> format_currency(amount),
                             exchange_rate |-> ExchangeRate(currency_data, country_currency),
                             amount_in_local_currency |->
                                 format_currency(amount_in_local_currency)])
                      /\ corporation_sum' = corporation_sum + amount_in_local_currency
                      /\ products_left' = products_left \ {product}
                      /\ pc' = IF products_left' = {} THEN "countries" ELSE "products"
                      /\ UNCHANGED raised
    /\ UNCHANGED <<env, opened, rates, reports, corporations, corporations_left,
                   corporation, countries_left, countrycode>>

\* line 165
EndCorporation ==
    /\ pc = "countries"
    /\ countries_left = {}
    /\ stdout' = Append(stdout, [kind |-> "total", corporation |-> corporation,
                                 amount |-> format_currency(corporation_sum)])
    /\ pc' = "corporations"
    /\ UNCHANGED <<env, raised, opened, rates, reports, printer>>

\* line 187
ExitSuccess ==
    /\ pc = "corporations"
    /\ corporations_left = {}
    /\ Exit(SystemExit(0, 187))
    /\ UNCHANGED <<env, stdout, opened, rates, reports, printer>>

Next ==
    \/ Usage
    \/ CurrencyDataMissing
    \/ OpenCurrencyData
    \/ ReadCurrencyLine
    \/ ListDirectory
    \/ NextFile
    \/ ReadReportLine
    \/ CloseReport
    \/ PrintSalesDate
    \/ GroupByCorporation
    \/ BeginCorporation
    \/ BeginCountry
    \/ PrintProduct
    \/ EndCorporation
    \/ ExitSuccess

Spec == Init /\ [][Next]_vars

(***************************************************************************)
(* Vocabulary of the properties.                                           *)
(***************************************************************************)
\* The lines of the report files, by file and number, and the recognised data rows.
Positions == UNION {{<<name, i>> : i \in 1..Len(files[name])} : name \in DOMAIN files}
LineAt(pos) == files[pos[1]][pos[2]]
Rows == {pos \in Positions : HasSlash(LineAt(pos).c0)}
RowsOfCountry(c) == {pos \in Rows : LineAt(pos).c17 = c}
RowsOf(c, p) == {pos \in RowsOfCountry(c) : LineAt(pos).c12 = p}

RECURSIVE SumOf(_, _)
SumOf(f, S) == IF S = {} THEN 0
               ELSE LET x == CHOOSE x \in S : TRUE IN f[x] + SumOf(f, S \ {x})

\* parse_financial_reports has returned.
ParsingDone ==
    \/ pc \in {"print_sales", "corporations", "countries", "products"}
    \/ pc = "exit" /\ raised.at > 130

Succeeded == pc = "exit" /\ ExitCode = 0

\* The records of the statement on stdout, and the ones of a kind.
ReportKinds == {"date", "corporation", "country", "product", "total"}
ReportOutput == {i \in DOMAIN stdout : stdout[i].kind \in ReportKinds}
Printed(kind) == {i \in DOMAIN stdout : stdout[i].kind = kind}

Last(S) == CHOOSE i \in S : \A j \in S : j <= i
\* The country header and the corporation header a printed record stands under.
CountryHeader(i) == Last({j \in Printed("country") : j < i})
CorporationHeader(i) == Last({j \in Printed("corporation") : j < i})
CountryOfLine(i) == stdout[CountryHeader(i)].countrycode

ProductLinesOf(c) == {i \in Printed("product") : CountryOfLine(i) = c}

(***************************************************************************)
(* C1.  Once parse_financial_reports has returned, the ledger holds, for   *)
(* every (country, product), exactly the sum of the quantities and the sum *)
(* of the amounts of all recognised rows of that country and product in    *)
(* all files, and no other key, whatever the order of the files and rows.  *)
(***************************************************************************)
LedgerIsSumOfRows ==
    ParsingDone =>
        /\ DOMAIN countries = {LineAt(pos).c17 : pos \in Rows}
        /\ \A c \in DOMAIN countries :
             /\ DOMAIN countries[c] = {LineAt(pos).c12 : pos \in RowsOfCountry(c)}
             /\ \A p \in DOMAIN countries[c] :
                  countries[c][p] =
                      <<SumOf([pos \in RowsOf(c, p) |-> IntOf[LineAt(pos).c5]], RowsOf(c, p)),
                        SumOf([pos \in RowsOf(c, p) |-> DecimalOf[LineAt(pos).c7]],
                              RowsOf(c, p))>>

\* Two rows of one country and product, in two files, have been added up.
SummedAcrossFiles ==
    /\ ParsingDone
    /\ \E c \in DOMAIN countries : \E p \in DOMAIN countries[c] :
         \E r1, r2 \in RowsOf(c, p) : r1[1] # r2[1]

(***************************************************************************)
(* C2.  A printed product line of a country whose recorded currency is the *)
(* reporting currency shows the aggregated amount unchanged and the rate   *)
(* 1.00000, whatever the rate table holds; any other line shows the amount *)
(* times the exchange rate times the withholding tax factor of the table's *)
(* entry for the country's recorded currency.                              *)
(***************************************************************************)
ConversionRule ==
    \A i \in Printed("product") :
        LET rec == stdout[i]
            c == CountryOfLine(i)
            cur == currencies[c]
            aggregated == countries[c][rec.product][2]
        IN  /\ rec.country_currency = cur
            /\ rec.amount * Unit = 100 * aggregated
            /\ IF cur = local_currency
                 THEN /\ rec.amount_in_local_currency = rec.amount
                      /\ rec.exchange_rate = "1.00000"
                 ELSE /\ cur \in DOMAIN currency_data
                      /\ rec.exchange_rate = currency_data[cur][1]
                      /\ rec.amount_in_local_currency * Unit * Unit * Unit =
                            100 * aggregated * DecimalOf[currency_data[cur][1]]
                                * currency_data[cur][2]

\* A line in the reporting currency was printed although the table has a rate for
\* that currency, and a line in a foreign currency with a tax factor other than 1.
BothKindsOfLinePrinted ==
    /\ local_currency \in DOMAIN currency_data
    /\ \E i \in Printed("product") : stdout[i].country_currency = local_currency
    /\ \E i \in Printed("product") :
         /\ stdout[i].country_currency # local_currency
         /\ currency_data[stdout[i].country_currency][2] # Unit

(***************************************************************************)
(* C3.  A ledger country whose recorded currency is foreign and has no     *)
(* entry in the rate table never gets a product line, and the run never    *)
(* exits with code 0.                                                      *)
(***************************************************************************)
MissingRateIsFatal ==
    \A c \in DOMAIN countries :
        (c \in DOMAIN currencies /\ currencies[c] # local_currency
            /\ currencies[c] \notin DOMAIN currency_data)
        => /\ ProductLinesOf(c) = {}
           /\ ~Succeeded

\* The run died on the missing rate after it had printed another country's line.
DiedOnMissingRate ==
    /\ pc = "exit"
    /\ raised = Exception("KeyError", 157)
    /\ Printed("product") # {}

(***************************************************************************)
(* C4.  Every run that has ended either exited with code 0 with the whole  *)
(* statement printed, or printed no part of the statement.                 *)
(***************************************************************************)
WholeReport ==
    /\ stdout # <<>>
    /\ stdout[1].kind = "date"
    /\ stdout[Len(stdout)].kind = "total"
    /\ \A corp \in {corporation_of[c] : c \in DOMAIN countries} :
         /\ \E i \in Printed("corporation") : stdout[i].corporation = corp
         /\ \E i \in Printed("total") : stdout[i].corporation = corp
    /\ \A c \in DOMAIN countries :
         /\ \E i \in Printed("country") : stdout[i].countrycode = c
         /\ {stdout[i].product : i \in ProductLinesOf(c)} = DOMAIN countries[c]

AllOrNothing ==
    pc = "exit" => \/ ExitCode = 0 /\ WholeReport
                   \/ ReportOutput = {}

(***************************************************************************)
(* C5.  Without the directory argument, or when currency_data.txt cannot   *)
(* be opened, the run goes straight to exit code 1: no file is opened and  *)
(* nothing of the statement is printed.  Exit code 0 comes only with the   *)
(* whole statement printed.                                                *)
(***************************************************************************)
ConfigurationErrorsExitFirst ==
    /\ (Len(argv) < 2 \/ ~has_rates) =>
          /\ pc \in {"main", "exit"}
          /\ pc = "exit" => ExitCode = 1
          /\ opened = {}
          /\ ReportOutput = {}
    /\ Succeeded => WholeReport

\* The run ended for want of the rate file in a directory that holds sales.
ExitedWithoutRates ==
    /\ pc = "exit"
    /\ Len(argv) >= 2
    /\ ~has_rates
    /\ Rows # {}

(***************************************************************************)
(* C6.  The three results of parse_financial_reports are those of parsing  *)
(* the report files in any other order.                                    *)
(***************************************************************************)
\* parse_financial_reports over the files in a given order (lines 87-130).
RECURSIVE ParseFile(_, _, _)
ParseFile(st, name, i) ==
    IF i > Len(files[name]) THEN st
    ELSE ParseFile(IF HasSlash(files[name][i].c0) THEN ParseLine(st, files[name][i], name)
                   ELSE st,
                   name, i + 1)

RECURSIVE ParseFiles(_, _, _)
ParseFiles(st, order, k) ==
    IF k > Len(order) THEN st
    ELSE ParseFiles(ParseFile(st, order[k], 1), order, k + 1)

Orders == {order \in [1..Cardinality(DOMAIN files) -> DOMAIN files] :
              \A i, j \in DOMAIN order : order[i] = order[j] => i = j}

AggregationOrderIndependent ==
    ParsingDone =>
        \A order \in Orders :
            ParseFiles([countries |-> Empty, currencies |-> Empty, date_range |-> None],
                       order, 1)
            = [countries |-> countries, currencies |-> currencies,
               date_range |-> date_range]

(***************************************************************************)
(* C7.  Once the reports are parsed, a country all of whose rows come from *)
(* files named with "_WW." is recorded with the currency "USD - RoW"; and  *)
(* right after a row is processed its country is recorded with the row's   *)
(* own currency field if the file has no such marker.                      *)
(***************************************************************************)
RestOfWorldCurrency ==
    /\ ParsingDone =>
          \A c \in DOMAIN countries :
              (\A pos \in RowsOfCountry(c) : Contains(pos[1], "_WW."))
              => currencies[c] = "USD - RoW"
    /\ (pc = "report" /\ lineno > 0 /\ HasSlash(line.c0)) =>
          currencies[line.c17] = IF Contains(filename, "_WW.") THEN "USD - RoW"
                                 ELSE line.c8

\* A country sold only in the rest-of-world file, with another raw currency.
OnlyRestOfWorldCountry ==
    /\ ParsingDone
    /\ \E c \in DOMAIN countries :
         /\ \A pos \in RowsOfCountry(c) :
              Contains(pos[1], "_WW.") /\ LineAt(pos).c8 # "USD - RoW"
         /\ currencies[c] = "USD - RoW"

(***************************************************************************)
(* C8.  Every ledger country is printed at most once, under the            *)
(* corporation the lookup gives it, and all of them once the run succeeds; *)
(* the total of a corporation closes its block, after the lines of all its *)
(* countries and products, and is the sum of their converted amounts.      *)
(***************************************************************************)
CountriesOf(corp) == {c \in DOMAIN countries : corporation_of[c] = corp}
Sales(corp) == UNION {{<<c, p>> : p \in DOMAIN countries[c]} : c \in CountriesOf(corp)}
Converted(sale) ==
    AmountInLocalCurrency(currency_data, currencies[sale[1]], countries[sale[1]][sale[2]][2])

EntityTotals ==
    /\ \A i \in Printed("country") :
         /\ stdout[i].countrycode \in DOMAIN countries
         /\ stdout[CorporationHeader(i)].corporation = corporation_of[stdout[i].countrycode]
         /\ \A j \in Printed("country") :
              stdout[j].countrycode = stdout[i].countrycode => j = i
    /\ \A i \in Printed("total") :
         LET h == CorporationHeader(i)
             corp == stdout[i].corporation
             block == {j \in DOMAIN stdout : h < j /\ j < i}
         IN  /\ stdout[h].corporation = corp
             /\ \A j \in block : stdout[j].kind \in {"country", "product"}
             /\ {stdout[j].countrycode : j \in block \cap Printed("country")}
                   = CountriesOf(corp)
             /\ Cardinality(block \cap Printed("product")) = Cardinality(Sales(corp))
             /\ stdout[i].amount * Unit =
                   100 * SumOf([sale \in Sales(corp) |-> Converted(sale)], Sales(corp))
    /\ Succeeded =>
          \A c \in DOMAIN countries : \E i \in Printed("country") : stdout[i].countrycode = c

\* Two corporations have been totalled, neither with a zero total.
TwoEntitiesTotalled ==
    /\ Succeeded
    /\ Cardinality(Printed("total")) = 2
    /\ \A i \in Printed("total") : stdout[i].amount # 0

(***************************************************************************)
(* C9.  Every withholding tax factor in the rate table lies in [0, 1], and *)
(* no line of more than 10 columns makes parse_currency_data fail.         *)
(***************************************************************************)
TaxFactorInUnitInterval ==
    /\ \A c \in DOMAIN currency_data :
         0 <= currency_data[c][2] /\ currency_data[c][2] <= Unit
    /\ raised.at # 76

(***************************************************************************)
(* C10.  At every moment the countries with a recorded currency are the    *)
(* countries of the ledger, each ledger country has a product, and the     *)
(* currency lookup of print_sales_by_corporation (line 145) never fails.   *)
(***************************************************************************)
CurrencyForEveryCountry ==
    /\ DOMAIN currencies = DOMAIN countries
    /\ \A c \in DOMAIN countries : DOMAIN countries[c] # {}
    /\ raised # Exception("KeyError", 145)

\* The lookup has been made for two countries.
TwoCurrenciesLookedUp ==
    Cardinality(Printed("country")) = 2

====
